---- MODULE Spec2Model ----
(***************************************************************************)
(* Memory Keeper: the memory-to-document pipeline of                       *)
(* memory-keeper/blog_generator.py (polish_story, generate_blog,           *)
(* export_pdf) and the answer store of memory-keeper/app.py.               *)
(*                                                                         *)
(* Three specifications share the module:                                  *)
(*   SpecPipeline  polish_story and generate_blog applied to drawn inputs  *)
(*   SpecExport    export_pdf called repeatedly against one directory      *)
(*   SpecStore     the answers file: load, edit, save, concurrent reader   *)
(***************************************************************************)
EXTENDS Integers, Sequences, FiniteSets, TLC

VARIABLES
    \* ---- pipeline (blog_generator.py: polish_story, generate_blog)
    GENEMINI_AVAILABLE, \* module flag set at import, blog_generator.py:11-21
    svc,                \* what the generative-text service does per question
    req,                \* the call being made and its arguments
    out,                \* what the call returned and which service calls it made
    \* ---- export (blog_generator.py: export_pdf)
    now,                \* wall clock, in ticks
    files,              \* names of the PDF files present in the directory
    logFile,            \* content of pdf/pdf_log.json
    issued,             \* history: entries created by the calls that returned
    clean,              \* history: log started absent/empty and no call raised
    last,               \* the last export_pdf call: arguments and result
    \* ---- store (app.py: data/memories.json)
    dataFile,           \* content of data/memories.json
    answers,            \* the saving session's in-memory Answer Record
    wpc,                \* the saving session's position in the save
    prev,               \* history: file content when the save began
    seen                \* the other session's last load of the file

pipelineVars == <<GENEMINI_AVAILABLE, svc, req, out>>
exportVars   == <<now, files, logFile, issued, clean, last>>
storeVars    == <<dataFile, answers, wpc, prev, seen>>
vars == <<GENEMINI_AVAILABLE, svc, req, out,
          now, files, logFile, issued, clean, last,
          dataFile, answers, wpc, prev, seen>>

----------------------------------------------------------------------------
(* Bounds *)

MaxAnswerLen == 4       \* longest answer passed to polish_story directly
MaxRecordAnswerLen == 2 \* longest answer inside a record given to generate_blog

----------------------------------------------------------------------------
(* Text *)

Whitespace == {" "}
Chars == Whitespace \cup {"a"}

StringsUpTo(n) == UNION {[1..k -> Chars] : k \in 0..n}

\* str.strip(): drop leading and trailing whitespace
RECURSIVE lstrip(_)
lstrip(s) ==
    IF s = <<>> THEN <<>>
    ELSE IF Head(s) \in Whitespace THEN lstrip(Tail(s)) ELSE s

RECURSIVE rstrip(_)
rstrip(s) ==
    IF s = <<>> THEN <<>>
    ELSE IF s[Len(s)] \in Whitespace THEN rstrip(SubSeq(s, 1, Len(s) - 1)) ELSE s

strip(s) == rstrip(lstrip(s))

----------------------------------------------------------------------------
(* Pipeline: polish_story, generate_blog *)

\* app.py QUESTIONS, the first three
QUESTIONS == <<"Q1", "Q2", "Q3">>
Prompts == {QUESTIONS[i] : i \in 1..Len(QUESTIONS)}

None == "None"
Handles == {None, "caller"}

\* the service's answer to one generate_content call: a reply text, or an exception
Replies == {<<"s">>, <<" ", "s", " ">>}
Outcomes == {[ok |-> FALSE, text |-> <<>>]} \cup {[ok |-> TRUE, text |-> r] : r \in Replies}

Call(handle, question, answer) ==
    [handle |-> handle, question |-> question, answer |-> answer]

\* mutant: the exception of the service call is not caught
polish_story_uncaught(question, answer, model, outcome) ==
    IF strip(answer) = <<>>
    THEN [ret |-> <<>>, raised |-> FALSE, made |-> <<>>]
    ELSE IF model = None /\ GENEMINI_AVAILABLE
         THEN [ret |-> IF outcome.ok THEN strip(outcome.text) ELSE <<>>,
               raised |-> ~outcome.ok,
               made |-> <<Call("default", question, answer)>>]
         ELSE [ret |-> answer, raised |-> FALSE, made |-> <<>>]

\* mutant: no early return for a blank answer
polish_story_noguard(question, answer, model, outcome) ==
    IF model = None /\ GENEMINI_AVAILABLE
    THEN [ret |-> IF outcome.ok THEN strip(outcome.text) ELSE answer,
          raised |-> FALSE,
          made |-> <<Call("default", question, answer)>>]
    ELSE [ret |-> answer, raised |-> FALSE, made |-> <<>>]

\* polish_story(question, answer, model=None); outcome is what generate_content
\* does if it is called
polish_story(question, answer, model, outcome) ==
    IF strip(answer) = <<>>
    THEN [ret |-> <<>>, raised |-> FALSE, made |-> <<>>]
    ELSE IF model = None /\ GENEMINI_AVAILABLE
         THEN \* default handle genai.GenerativeModel(...), then generate_content
              [ret |-> IF outcome.ok THEN strip(outcome.text) ELSE answer,
               raised |-> FALSE,
               made |-> <<Call("default", question, answer)>>]
         ELSE [ret |-> answer, raised |-> FALSE, made |-> <<>>]

\* An Answer Record: an insertion-ordered dict, as a sequence of items with
\* distinct keys
Item(q, a) == [q |-> q, a |-> a]

RECURSIVE KeyOrders(_)
KeyOrders(n) ==
    IF n = 0 THEN {<<>>}
    ELSE LET shorter == KeyOrders(n - 1)
         IN  shorter \cup
             {Append(ks, q) : <<ks, q>> \in
                 {p \in shorter \X Prompts :
                     Len(p[1]) = n - 1 /\ \A i \in 1..Len(p[1]) : p[1][i] # p[2]}}

RecordsOver(keys, strings) ==
    {[i \in 1..Len(keys) |-> Item(keys[i], as[i])] : as \in [1..Len(keys) -> strings]}

Records(strings) == UNION {RecordsOver(ks, strings) : ks \in KeyOrders(Len(QUESTIONS))}

\* mutant: the table of contents lists every prompt
toc_unfiltered(record) ==
    [i \in 1..Len(record) |-> record[i].q]

\* toc = [q for q in answers if answers[q].strip()]
RECURSIVE toc(_)
toc(record) ==
    IF record = <<>> THEN <<>>
    ELSE IF strip(Head(record).a) # <<>>
         THEN <<Head(record).q>> \o toc(Tail(record))
         ELSE toc(Tail(record))

\* for q, a in answers.items(): if a.strip(): polished = polish_story(q, a)
RECURSIVE sections(_)
sections(record) ==
    IF record = <<>> THEN [body |-> <<>>, made |-> <<>>, raised |-> FALSE]
    ELSE LET q == Head(record).q
             a == Head(record).a
             rest == sections(Tail(record))
         IN  IF strip(a) # <<>>
             THEN LET p == polish_story(q, a, None, svc[q])
                  IN  IF p.raised
                      THEN [body |-> <<>>, made |-> p.made, raised |-> TRUE]
                      ELSE [body |-> <<[h3 |-> q, p |-> p.ret]>> \o rest.body,
                            made |-> p.made \o rest.made,
                            raised |-> rest.raised]
             ELSE rest

generate_blog(record) ==
    LET s == sections(record)
    IN  [toc |-> toc(record), body |-> s.body, made |-> s.made, raised |-> s.raised]

NoOut == [kind |-> "none", ret |-> <<>>, toc |-> <<>>, body |-> <<>>,
          made |-> <<>>, raised |-> FALSE]

PolishRequests ==
    {[kind |-> "polish", question |-> q, answer |-> a, model |-> m, record |-> <<>>] :
        q \in Prompts, a \in StringsUpTo(MaxAnswerLen), m \in Handles}

BlogRequests ==
    {[kind |-> "blog", question |-> "Q1", answer |-> <<>>, model |-> None, record |-> r] :
        r \in Records(StringsUpTo(MaxRecordAnswerLen))}


PolishStory ==
    /\ req.kind = "polish"
    /\ out.kind = "none"
    /\ LET p == polish_story(req.question, req.answer, req.model, svc[req.question])
       IN  out' = [kind |-> "polish", ret |-> p.ret, toc |-> <<>>, body |-> <<>>,
                   made |-> p.made, raised |-> p.raised]
    /\ UNCHANGED <<GENEMINI_AVAILABLE, svc, req>>
    /\ UNCHANGED <<exportVars, storeVars>>

GenerateBlog ==
    /\ req.kind = "blog"
    /\ out.kind = "none"
    /\ LET b == generate_blog(req.record)
       IN  out' = [kind |-> "blog", ret |-> <<>>, toc |-> b.toc, body |-> b.body,
                   made |-> b.made, raised |-> b.raised]
    /\ UNCHANGED <<GENEMINI_AVAILABLE, svc, req>>
    /\ UNCHANGED <<exportVars, storeVars>>

----------------------------------------------------------------------------
(* Export: export_pdf and the Export Log *)

MaxClock == 3        \* the clock stops after this many ticks
TicksPerMinute == 2  \* clock ticks in one minute of wall-clock time
MaxExports == 3      \* export_pdf calls that return, per behaviour

\* html_content values: one line, and two lines
Htmls == {<<"a">>, <<"a", "\n", "b">>}

\* "".join(html_content.splitlines())[:50]
PreviewLen == 50
RECURSIVE joinlines(_)
joinlines(s) ==
    IF s = <<>> THEN <<>>
    ELSE IF Head(s) = "\n" THEN joinlines(Tail(s)) ELSE <<Head(s)>> \o joinlines(Tail(s))

preview(html_content) ==
    LET flat == joinlines(html_content)
    IN  SubSeq(flat, 1, IF Len(flat) < PreviewLen THEN Len(flat) ELSE PreviewLen)

\* strftime("%Y%m%d_%H%M"): the clock truncated to the minute
timestamp(t) == t \div TicksPerMinute

\* f"memory_blog_{timestamp}.pdf"
filename(t) == <<"memory_blog_", timestamp(t), ".pdf">>

Entry(t, html_content) ==
    [filename |-> filename(t), generated_at |-> t, preview |-> preview(html_content)]

\* content of pdf_log.json: no file, a zero-length file, text that is not JSON,
\* a JSON object, or a JSON array of entries
LogContent(kind, items) == [kind |-> kind, items |-> items]
AbsentLog == LogContent("absent", <<>>)
EmptyLog == LogContent("empty", <<>>)

\* json.dump(log, f, indent=4)
json_dump(log) == LogContent("array", log)

\* mutant: the existing log is not read back
read_log_fresh(file) ==
    [log |-> <<>>, islist |-> TRUE]

\* log = []; if exists: try: log = json.load(f) except JSONDecodeError: log = []
\* islist is FALSE when json.load returned a value that is not a list
read_log(file) ==
    IF file.kind = "absent" THEN [log |-> <<>>, islist |-> TRUE]
    ELSE IF file.kind \in {"empty", "garbage"} THEN [log |-> <<>>, islist |-> TRUE]
    ELSE IF file.kind = "array" THEN [log |-> file.items, islist |-> TRUE]
    ELSE [log |-> <<>>, islist |-> FALSE]

\* what the storage does during one call
IoFaults == {"ok", "pdf_unwritable", "log_unwritable", "log_truncated"}

\* export_pdf(html_content, directory="pdf"); primary: does WeasyPrint render;
\* io: the storage fault met by this call
export_pdf(html_content, primary, io) ==
    LET name == filename(now)
        e == Entry(now, html_content)
        r == read_log(logFile)
        written == files \cup {name}
    IN  IF io = "pdf_unwritable"
        THEN \* write_pdf raises, canvas.save raises too: nothing is written
             [files |-> files, logFile |-> logFile, raised |-> "IOError",
              ret |-> <<>>, renderer |-> "none", entry |-> e]
        ELSE LET renderer == IF primary THEN "weasyprint" ELSE "reportlab"
             IN  IF ~r.islist
                 THEN \* log.append on a value that is no list
                      [files |-> written, logFile |-> logFile, raised |-> "AttributeError",
                       ret |-> <<>>, renderer |-> renderer, entry |-> e]
                 ELSE IF io = "log_unwritable"
                 THEN \* open(log_file, "w") raises
                      [files |-> written, logFile |-> logFile, raised |-> "IOError",
                       ret |-> <<>>, renderer |-> renderer, entry |-> e]
                 ELSE IF io = "log_truncated"
                 THEN \* open(log_file, "w") truncates, the write then fails
                      [files |-> written, logFile |-> EmptyLog, raised |-> "IOError",
                       ret |-> <<>>, renderer |-> renderer, entry |-> e]
                 ELSE [files |-> written, logFile |-> json_dump(Append(r.log, e)),
                       raised |-> "none", ret |-> name, renderer |-> renderer, entry |-> e]

NoCall == [called |-> FALSE, html |-> <<>>, primary |-> TRUE, io |-> "ok",
           logBefore |-> AbsentLog, raised |-> "none", ret |-> <<>>,
           renderer |-> "none", entry |-> Entry(0, <<>>)]

ExportPdf(html_content, primary, io) ==
    /\ Len(issued) < MaxExports
    /\ LET x == export_pdf(html_content, primary, io)
       IN  /\ files' = x.files
           /\ logFile' = x.logFile
           /\ issued' = IF x.raised = "none" THEN Append(issued, x.entry) ELSE issued
           /\ clean' = (clean /\ x.raised = "none")
           /\ last' = [called |-> TRUE, html |-> html_content, primary |-> primary,
                       io |-> io, logBefore |-> logFile, raised |-> x.raised,
                       ret |-> x.ret, renderer |-> x.renderer, entry |-> x.entry]
    /\ UNCHANGED now
    /\ UNCHANGED <<pipelineVars, storeVars>>

Export == \E h \in Htmls, primary \in BOOLEAN, io \in IoFaults : ExportPdf(h, primary, io)

Tick ==
    /\ now < MaxClock
    /\ now' = now + 1
    /\ UNCHANGED <<files, logFile, issued, clean, last>>
    /\ UNCHANGED <<pipelineVars, storeVars>>

\* what pdf_log.json may hold when the program starts
InitialLogs ==
    {AbsentLog, EmptyLog, LogContent("garbage", <<>>), LogContent("object", <<>>),
     LogContent("array", <<>>)}

----------------------------------------------------------------------------
(* Store: data/memories.json, loaded at the top of the script, saved by the
   "Save My Answers" button; a second session loads the same file *)

\* what the user may type into one text area
TypedAnswers == {<<>>, <<"a">>}

\* content of data/memories.json: no file, a zero-length file, the first part
\* of a record's JSON text, or the whole JSON object of a record
DataContent(kind, rec) == [kind |-> kind, rec |-> rec]
AbsentData == DataContent("absent", <<>>)
EmptyData == DataContent("empty", <<>>)

\* if os.path.exists(DATA_FILE): answers = json.load(f) else: answers = {}
load_answers(file) ==
    IF file.kind = "absent" THEN [raised |-> FALSE, answers |-> <<>>]
    ELSE IF file.kind = "object" THEN [raised |-> FALSE, answers |-> file.rec]
    ELSE \* json.load raises JSONDecodeError, nothing catches it
         [raised |-> TRUE, answers |-> <<>>]

\* the script's first lines, in the saving session
Load ==
    /\ wpc = "start"
    /\ LET l == load_answers(dataFile)
       IN  /\ answers' = l.answers
           /\ wpc' = IF l.raised THEN "aborted" ELSE "loaded"
    /\ UNCHANGED <<dataFile, prev, seen>>
    /\ UNCHANGED <<pipelineVars, exportVars>>

\* for i, q in enumerate(QUESTIONS): answers[q] = st.text_area(...)
Widgets ==
    /\ wpc = "loaded"
    /\ \E typed \in RecordsOver(QUESTIONS, TypedAnswers) : answers' = typed
    /\ wpc' = "edited"
    /\ UNCHANGED <<dataFile, prev, seen>>
    /\ UNCHANGED <<pipelineVars, exportVars>>

\* with open(DATA_FILE, "w") as f: the file is truncated
SaveOpen ==
    /\ wpc = "edited"
    /\ prev' = dataFile
    /\ dataFile' = EmptyData
    /\ wpc' = "opened"
    /\ UNCHANGED <<answers, seen>>
    /\ UNCHANGED <<pipelineVars, exportVars>>

\* json.dump(answers, f, indent=4): the buffer fills and its first part is written
SaveFlush ==
    /\ wpc = "opened"
    /\ dataFile' = DataContent("partial", answers)
    /\ wpc' = "flushed"
    /\ UNCHANGED <<answers, prev, seen>>
    /\ UNCHANGED <<pipelineVars, exportVars>>

\* leaving the with block: the rest is written and the file closed; the script
\* runs again from its first line on the next interaction
SaveClose ==
    /\ wpc \in {"opened", "flushed"}
    /\ dataFile' = DataContent("object", answers)
    /\ wpc' = "start"
    /\ UNCHANGED <<answers, prev, seen>>
    /\ UNCHANGED <<pipelineVars, exportVars>>

\* the script's first lines, in another session
ReaderLoad ==
    /\ LET l == load_answers(dataFile)
       IN  seen' = [loaded |-> TRUE, file |-> dataFile, raised |-> l.raised,
                    answers |-> l.answers, saving |-> wpc \in {"opened", "flushed"},
                    old |-> prev, new |-> DataContent("object", answers)]
    /\ UNCHANGED <<dataFile, answers, wpc, prev>>
    /\ UNCHANGED <<pipelineVars, exportVars>>

NotSeen == [loaded |-> FALSE, file |-> AbsentData, raised |-> FALSE, answers |-> <<>>,
            saving |-> FALSE, old |-> AbsentData, new |-> AbsentData]

\* what data/memories.json may hold when a session starts
InitialData ==
    {AbsentData, EmptyData}
      \cup {DataContent("object", r) : r \in RecordsOver(QUESTIONS, TypedAnswers)}

----------------------------------------------------------------------------
(* Specifications *)

PipelineIdle ==
    /\ GENEMINI_AVAILABLE = FALSE
    /\ svc = [q \in Prompts |-> [ok |-> FALSE, text |-> <<>>]]
    /\ req = [kind |-> "none", question |-> "Q1", answer |-> <<>>, model |-> None,
              record |-> <<>>]
    /\ out = NoOut

ExportIdle ==
    /\ now = 0
    /\ files = {}
    /\ logFile = AbsentLog
    /\ issued = <<>>
    /\ clean = TRUE
    /\ last = NoCall

StoreIdle ==
    /\ dataFile = AbsentData
    /\ answers = <<>>
    /\ wpc = "start"
    /\ prev = AbsentData
    /\ seen = NotSeen

InitPipeline ==
    /\ GENEMINI_AVAILABLE \in BOOLEAN
    /\ svc \in [Prompts -> Outcomes]
    /\ req \in PolishRequests \cup BlogRequests
    /\ out = NoOut
    /\ ExportIdle
    /\ StoreIdle

NextPipeline == PolishStory \/ GenerateBlog

SpecPipeline == InitPipeline /\ [][NextPipeline]_vars

InitExport ==
    /\ now = 0
    /\ files = {}
    /\ logFile \in InitialLogs
    /\ issued = <<>>
    /\ clean = (logFile \in {AbsentLog, EmptyLog, LogContent("array", <<>>)})
    /\ last = NoCall
    /\ PipelineIdle
    /\ StoreIdle

NextExport == Export \/ Tick

SpecExport == InitExport /\ [][NextExport]_vars

InitStore ==
    /\ dataFile \in InitialData
    /\ answers = <<>>
    /\ wpc = "start"
    /\ prev = dataFile
    /\ seen = NotSeen
    /\ PipelineIdle
    /\ ExportIdle

NextStore == Load \/ Widgets \/ SaveOpen \/ SaveFlush \/ SaveClose \/ ReaderLoad

SpecStore == InitStore /\ [][NextStore]_vars

----------------------------------------------------------------------------
(* Properties *)

\* an answer with a character that is not whitespace
NonBlank(a) == \E k \in 1..Len(a) : a[k] \notin Whitespace

\* positions of the answered prompts of a record, and the j-th of them
AnsweredAt(record) == {i \in 1..Len(record) : NonBlank(record[i].a)}
NthOf(S, j) == CHOOSE i \in S : Cardinality({k \in S : k <= i}) = j

ServiceAlwaysRaises == \A q \in Prompts : ~svc[q].ok

\* C1: starting from an absent or empty Export Log, after N export_pdf calls
\* that all returned, the log file holds exactly the N entries those calls
\* created, in call order, each one unmodified and at the position it was
\* appended at.
C1_LogHoldsExportsInCallOrder ==
    clean =>
        /\ Len(issued) > 0 => logFile.kind = "array"
        /\ logFile.items = issued

C1_Witness ==
    /\ clean
    /\ Len(issued) >= 2
    /\ logFile.kind = "array"
    /\ last.called /\ last.raised = "none"

\* C2: no two entries of the Export Log carry the same filename, also when two
\* exports fall within the same minute.
C2_FilenamesUnique ==
    logFile.kind = "array" =>
        \A i, j \in 1..Len(logFile.items) :
            i # j => logFile.items[i].filename # logFile.items[j].filename

\* C3: when the primary renderer fails and the storage is writable, export_pdf
\* does not raise: the fallback renderer wrote the file, the file exists under
\* the returned name, and the returned name is the computed filename.
C3_FallbackNeverRaises ==
    (last.called /\ ~last.primary /\ last.io = "ok") =>
        /\ last.raised = "none"
        /\ last.renderer = "reportlab"
        /\ last.ret = last.entry.filename
        /\ last.ret \in files

\* C4: when every call of the generative-text service raises, polish_story
\* returns a non-blank answer unchanged without raising, and generate_blog
\* completes with one section per answered prompt, in record order, holding
\* the raw answer.
C4_ServiceFailureFallsBackToAnswer ==
    ServiceAlwaysRaises =>
        /\ (out.kind = "polish" /\ NonBlank(req.answer)) =>
               (~out.raised /\ out.ret = req.answer)
        /\ out.kind = "blog" =>
               LET at == AnsweredAt(req.record)
               IN  /\ ~out.raised
                   /\ Len(out.body) = Cardinality(at)
                   /\ \A j \in 1..Len(out.body) :
                          /\ out.body[j].h3 = req.record[NthOf(at, j)].q
                          /\ out.body[j].p = req.record[NthOf(at, j)].a

C4_Witness ==
    /\ ServiceAlwaysRaises
    /\ GENEMINI_AVAILABLE
    /\ out.kind = "blog"
    /\ Len(out.made) >= 2
    /\ Len(out.body) >= 2
    /\ \E j \in 1..Len(out.body) : out.body[j].p # strip(out.body[j].p)

\* C5: for a non-blank answer polish_story calls the service through the
\* handle the caller passed, uses the default handle only when none was
\* passed, and returns the service's reply when the call succeeded.
C5_CallerHandleIsUsed ==
    (out.kind = "polish" /\ NonBlank(req.answer)) =>
        /\ req.model # None =>
               out.made = <<Call(req.model, req.question, req.answer)>>
        /\ \A i \in 1..Len(out.made) :
               out.made[i].handle = "default" => req.model = None
        /\ (req.model # None /\ svc[req.question].ok) =>
               out.ret = strip(svc[req.question].text)
        /\ (out.made # <<>> /\ svc[req.question].ok) =>
               out.ret = strip(svc[req.question].text)

\* C6: for an empty or whitespace-only answer polish_story returns the empty
\* string and makes no call to the service, whatever the configuration and
\* whether or not a handle is passed.
C6_BlankAnswerMakesNoCall ==
    (out.kind = "polish" /\ ~NonBlank(req.answer)) =>
        /\ out.ret = <<>>
        /\ out.made = <<>>
        /\ ~out.raised

C6_Witness ==
    /\ out.kind = "polish"
    /\ req.answer = <<" ", " ">>
    /\ GENEMINI_AVAILABLE
    /\ req.model = None
    /\ svc[req.question].ok

\* C7: loading the Answer Record returns the saved record when the file holds
\* valid JSON, and an empty record, without raising, when there is no file or
\* the file is not readable as JSON.
C7_LoadRecoversFromBadFile ==
    seen.loaded =>
        /\ ~seen.raised
        /\ seen.answers = IF seen.file.kind = "object" THEN seen.file.rec ELSE <<>>

\* C8: a load running while another session saves finds either the whole
\* previous content of the file or the whole new content, never an empty or
\* partly written file.
C8_ReaderSeesOldOrNew ==
    (seen.loaded /\ seen.saving) => seen.file \in {seen.old, seen.new}

\* C9: the document of generate_blog has one body section per prompt whose
\* answer is not blank, in record order, and its table of contents lists the
\* same prompts in the same order; prompts with a blank answer are in neither.
C9_TocAndBodyListAnsweredPrompts ==
    out.kind = "blog" =>
        LET at == AnsweredAt(req.record)
        IN  /\ ~out.raised
            /\ Len(out.toc) = Cardinality(at)
            /\ Len(out.body) = Cardinality(at)
            /\ \A j \in 1..Cardinality(at) :
                   /\ out.toc[j] = req.record[NthOf(at, j)].q
                   /\ out.body[j].h3 = req.record[NthOf(at, j)].q

C9_Witness ==
    /\ out.kind = "blog"
    /\ Len(req.record) = 3
    /\ ~NonBlank(req.record[2].a)
    /\ req.record[2].a # <<>>
    /\ req.record[1].a = <<" ", "a">>
    /\ Len(out.toc) = 2
    /\ Len(out.body) = 2

\* C10: when the existing Export Log file is not valid JSON, or is JSON but
\* not an array, export_pdf treats it as empty: the call returns the file name
\* and the rewritten log holds exactly the one new entry.
C10_CorruptLogTreatedAsEmpty ==
    (last.called /\ last.io = "ok" /\ last.logBefore.kind \in {"empty", "garbage", "object"}) =>
        /\ last.raised = "none"
        /\ last.ret = last.entry.filename
        /\ logFile = json_dump(<<last.entry>>)

====
